---------------------------- MODULE Spec2Model ----------------------------
(***************************************************************************)
(* The AST-to-bytecode compiler of rupypy (src/rupypy/ast.py).             *)
(*                                                                         *)
(* Every node class's compile(ctx) is an operator Compile<Class>(node,ctx) *)
(* that returns the context after the call.  The CompilerContext           *)
(* (rupypy/bytecode.py) and the interpreter are not part of src/; they are *)
(* modelled from the specification's description of them.                  *)
(*                                                                         *)
(* Positions, pool indices and local slots are 0-based as in the code; the *)
(* TLA+ sequences that hold them are 1-based, so position p is instrs[p+1].*)
(***************************************************************************)
EXTENDS Integers, Sequences, FiniteSets, TLC

(***************************************************************************)
(* Bounds of the model.                                                    *)
(***************************************************************************)
\* nesting depth of If / While / Function / Class inside one another
MaxDepth == 2
\* arguments of a Send, items of an Array
MaxArgs == 2
\* parameters of a Function (and pre-declared locals of the entered unit)
MaxParams == 2
\* number of dispatched sends the interpreter's trace records
MaxTrace == 4

(***************************************************************************)
(* AST nodes.  One record shape for all classes:                           *)
(*   t  the class, n  name / method / operator / string value,             *)
(*   i  the integer value, dp  Statement.dont_pop, ps  Function.args,      *)
(*   k  the child nodes in field order.                                    *)
(***************************************************************************)
Node(t, n, k) == [t |-> t, n |-> n, i |-> 0, dp |-> FALSE, ps |-> <<>>, k |-> k]

Self == Node("Self", "", <<>>)

Variable(name) == Node("Variable", name, <<>>)

InstanceVariable(name) == Node("InstanceVariable", name, <<>>)

ConstantInt(intvalue) == [Node("ConstantInt", "", <<>>) EXCEPT !.i = intvalue]

ConstantString(strvalue) == Node("ConstantString", strvalue, <<>>)

Array(items) == Node("Array", "", items)

Send(receiver, method, args) == Node("Send", method, <<receiver>> \o args)

BinOp(op, left, right) == Node("BinOp", op, <<left, right>>)

Return(expr) == Node("Return", "", <<expr>>)

Assignment(target, value) == Node("Assignment", target, <<value>>)

InstanceVariableAssignment(name, value) == Node("InstanceVariableAssignment", name, <<value>>)

\* Statement.__init__: dont_pop starts False
Statement(expr) == Node("Statement", "", <<expr>>)

\* Block.__init__: an empty list becomes [Statement(Variable("nil"))], and the
\* last item gets dont_pop = True (whatever its class).
Block(stmts) ==
    LET s == IF stmts = <<>> THEN <<Statement(Variable("nil"))>> ELSE stmts
    IN  Node("Block", "", [s EXCEPT ![Len(s)].dp = TRUE])

If(cond, body) == Node("If", "", <<cond, body>>)

While(cond, body) == Node("While", "", <<cond, body>>)

\* Class.superclass is stored and never compiled; the model leaves it out.
Class(name, body) == Node("Class", name, <<body>>)

Function(name, args, body) == [Node("Function", name, <<body>>) EXCEPT !.ps = args]

Main(block) == Node("Main", "", <<block>>)

(***************************************************************************)
(* Runtime values (the object space), abstracted to a kind k, a number v   *)
(* (the integer, or the index of a code object in the space) and a string s*)
(***************************************************************************)
Val(k, v, s) == [k |-> k, v |-> v, s |-> s]

w_true == Val("true", 0, "")

w_false == Val("false", 0, "")

w_nil == Val("nil", 0, "")

w_self == Val("self", 0, "")

w_array == Val("array", 0, "")

w_unset == Val("unset", 0, "")

newint(i) == Val("int", i, "")

newstr(s) == Val("str", 0, s)

\* "ABCDEFGHIJKLMNOPQRSTUVWXYZ".find(name[0]) >= 0 for the names of the model
UpperNames == {"X", "Y", "C"}

IsUpper(name) == name \in UpperNames

(***************************************************************************)
(* CompilerContext.  An instruction is op with operand a (ak records which *)
(* operation produced the operand), second operand b (SEND's argument      *)
(* count), ph whether it was emitted with a placeholder operand and np how *)
(* often patch_jump rewrote it.                                            *)
(***************************************************************************)
Operand(ak, a) == [ak |-> ak, a |-> a]

NoOperand == Operand("none", 0)

Placeholder == Operand("placeholder", 0)

NewContext(codes) ==
    [instrs |-> <<>>, consts |-> <<>>, syms |-> <<>>, locals |-> <<>>,
     spans |-> <<>>, codes |-> codes]

emit2(ctx, op, operand, b) ==
    [ctx EXCEPT !.instrs = Append(@, [op |-> op, a |-> operand.a, ak |-> operand.ak, b |-> b,
                                       ph |-> operand.ak = "placeholder", np |-> 0])]

emit(ctx, op, operand) == emit2(ctx, op, operand, 0)

get_pos(ctx) == Operand("pos", Len(ctx.instrs))

patch_jump(ctx, pos) ==
    [ctx EXCEPT !.instrs[pos.a + 1] =
        [@ EXCEPT !.a = Len(ctx.instrs), !.ak = "pos", !.np = @ + 1]]

IndexOf(seq, x) == CHOOSE j \in 1..Len(seq) : seq[j] = x

InSeq(seq, x) == \E j \in 1..Len(seq) : seq[j] = x

local_defined(ctx, name) == InSeq(ctx.locals, name)

\* the operations that return a value return [ctx, r]
create_local(ctx, name) ==
    IF InSeq(ctx.locals, name)
    THEN [ctx |-> ctx, r |-> Operand("local", IndexOf(ctx.locals, name) - 1)]
    ELSE [ctx |-> [ctx EXCEPT !.locals = Append(@, name)],
          r |-> Operand("local", Len(ctx.locals))]

create_const(ctx, w_obj) ==
    [ctx |-> [ctx EXCEPT !.consts = Append(@, w_obj)], r |-> Operand("const", Len(ctx.consts))]

create_int_const(ctx, intvalue) == create_const(ctx, newint(intvalue))

create_string_const(ctx, strvalue) == create_const(ctx, newstr(strvalue))

create_symbol_const(ctx, name) ==
    IF InSeq(ctx.syms, name)
    THEN [ctx |-> ctx, r |-> Operand("sym", IndexOf(ctx.syms, name) - 1)]
    ELSE [ctx |-> [ctx EXCEPT !.syms = Append(@, name)], r |-> Operand("sym", Len(ctx.syms))]

create_bytecode(ctx) ==
    [instrs |-> ctx.instrs, consts |-> ctx.consts, syms |-> ctx.syms,
     locals |-> ctx.locals, spans |-> ctx.spans]

\* space.newcode(bytecode): a new code object of the space both contexts share
newcode(ctx, bytecode) ==
    [ctx |-> [ctx EXCEPT !.codes = Append(@, bytecode)],
     r |-> Val("code", Len(ctx.codes) + 1, "")]

(***************************************************************************)
(* The compile methods.                                                    *)
(***************************************************************************)
RECURSIVE Compile(_, _)

RECURSIVE CompileAll(_, _)

\* compile the nodes of a list in list order
CompileAll(nodes, ctx) ==
    IF nodes = <<>> THEN ctx ELSE CompileAll(Tail(nodes), Compile(Head(nodes), ctx))

Reversed(seq) == [j \in 1..Len(seq) |-> seq[Len(seq) + 1 - j]]

EmitConst(ctx, w_obj) ==
    LET c == create_const(ctx, w_obj) IN emit(c.ctx, "LOAD_CONST", c.r)

CompileMain(node, ctx) ==
    LET c1 == Compile(node.k[1], ctx)
        c2 == emit(c1, "DISCARD_TOP", NoOperand)
        c3 == EmitConst(c2, w_true)
    IN  emit(c3, "RETURN", NoOperand)

CompileBlock(node, ctx) == CompileAll(node.k, ctx)

\* dont_pop ignored
CompileStatementAlwaysPop(node, ctx) ==
    emit(Compile(node.k[1], ctx), "DISCARD_TOP", NoOperand)

CompileStatement(node, ctx) ==
    LET c1 == Compile(node.k[1], ctx)
    IN  IF ~node.dp THEN emit(c1, "DISCARD_TOP", NoOperand) ELSE c1

\* the constant branch forgotten: every target is a local
CompileAssignmentAlwaysLocal(node, ctx) ==
    LET loc == create_local(ctx, node.n)
        c1  == Compile(node.k[1], loc.ctx)
    IN  emit(c1, "STORE_LOCAL", loc.r)

CompileAssignment(node, ctx) ==
    IF IsUpper(node.n)
    THEN LET c1 == Compile(node.k[1], ctx)
             s  == create_symbol_const(c1, node.n)
         IN  emit(s.ctx, "STORE_CONSTANT", s.r)
    ELSE LET loc == create_local(ctx, node.n)
             c1  == Compile(node.k[1], loc.ctx)
         IN  emit(c1, "STORE_LOCAL", loc.r)

CompileInstanceVariableAssignment(node, ctx) ==
    LET c1 == Compile(node.k[1], ctx)
        c2 == emit(c1, "LOAD_SELF", NoOperand)
        s  == create_symbol_const(c2, node.n)
    IN  emit(s.ctx, "STORE_INSTANCE_VAR", s.r)

\* the second patch names the first jump again
CompileIfPatchesSameJump(node, ctx) ==
    LET c1       == Compile(node.k[1], ctx)
        pos      == get_pos(c1)
        c2       == emit(c1, "JUMP_IF_FALSE", Placeholder)
        c3       == Compile(node.k[2], c2)
        else_pos == get_pos(c3)
        c4       == emit(c3, "JUMP", Placeholder)
        c5       == patch_jump(c4, pos)
        c6       == EmitConst(c5, w_nil)
    IN  patch_jump(c6, pos)

CompileIf(node, ctx) ==
    LET c1       == Compile(node.k[1], ctx)
        pos      == get_pos(c1)
        c2       == emit(c1, "JUMP_IF_FALSE", Placeholder)
        c3       == Compile(node.k[2], c2)
        else_pos == get_pos(c3)
        c4       == emit(c3, "JUMP", Placeholder)
        c5       == patch_jump(c4, pos)
        c6       == EmitConst(c5, w_nil)
    IN  patch_jump(c6, else_pos)

\* the exit jump patched before the back jump is emitted
CompileWhilePatchesEarly(node, ctx) ==
    LET start_pos == get_pos(ctx)
        c1        == Compile(node.k[1], ctx)
        jump_pos  == get_pos(c1)
        c2        == emit(c1, "JUMP_IF_FALSE", Placeholder)
        c3        == Compile(node.k[2], c2)
        c4        == emit(c3, "DISCARD_TOP", NoOperand)
        c5        == patch_jump(c4, jump_pos)
        c6        == emit(c5, "JUMP", start_pos)
    IN  EmitConst(c6, w_nil)

CompileWhile(node, ctx) ==
    LET start_pos == get_pos(ctx)
        c1        == Compile(node.k[1], ctx)
        jump_pos  == get_pos(c1)
        c2        == emit(c1, "JUMP_IF_FALSE", Placeholder)
        c3        == Compile(node.k[2], c2)
        c4        == emit(c3, "DISCARD_TOP", NoOperand)
        c5        == emit(c4, "JUMP", start_pos)
        c6        == patch_jump(c5, jump_pos)
    IN  EmitConst(c6, w_nil)

\* the body's context starts with the enclosing unit's local table
CompileClassSharesLocals(node, ctx) ==
    LET c1       == emit(ctx, "LOAD_SELF", NoOperand)
        s        == create_symbol_const(c1, node.n)
        c2       == emit(s.ctx, "LOAD_CONST", s.r)
        c3       == EmitConst(c2, w_nil)
        body_ctx == [NewContext(c3.codes) EXCEPT !.locals = ctx.locals]
        b1       == Compile(node.k[1], body_ctx)
        b2       == emit(b1, "DISCARD_TOP", NoOperand)
        b3       == EmitConst(b2, w_nil)
        b4       == emit(b3, "RETURN", NoOperand)
        bytecode == create_bytecode(b4)
        code     == newcode([c3 EXCEPT !.codes = b4.codes], bytecode)
        c4       == create_const(code.ctx, code.r)
        c5       == emit(c4.ctx, "LOAD_CONST", c4.r)
    IN  emit(c5, "BUILD_CLASS", NoOperand)

CompileClass(node, ctx) ==
    LET c1       == emit(ctx, "LOAD_SELF", NoOperand)
        s        == create_symbol_const(c1, node.n)
        c2       == emit(s.ctx, "LOAD_CONST", s.r)
        c3       == EmitConst(c2, w_nil)
        body_ctx == NewContext(c3.codes)
        b1       == Compile(node.k[1], body_ctx)
        b2       == emit(b1, "DISCARD_TOP", NoOperand)
        b3       == EmitConst(b2, w_nil)
        b4       == emit(b3, "RETURN", NoOperand)
        bytecode == create_bytecode(b4)
        code     == newcode([c3 EXCEPT !.codes = b4.codes], bytecode)
        c4       == create_const(code.ctx, code.r)
        c5       == emit(c4.ctx, "LOAD_CONST", c4.r)
    IN  emit(c5, "BUILD_CLASS", NoOperand)

RECURSIVE CreateLocals(_, _)

\* for name in self.args: function_ctx.create_local(name)
CreateLocals(names, ctx) ==
    IF names = <<>> THEN ctx
    ELSE CreateLocals(Tail(names), create_local(ctx, Head(names)).ctx)

\* the parameters declared last to first
CompileFunctionParamsReversed(node, ctx) ==
    LET function_ctx == NewContext(ctx.codes)
        f1       == CreateLocals(Reversed(node.ps), function_ctx)
        f2       == Compile(node.k[1], f1)
        f3       == emit(f2, "RETURN", NoOperand)
        bytecode == create_bytecode(f3)
        c1       == emit(ctx, "LOAD_SELF", NoOperand)
        s        == create_symbol_const(c1, node.n)
        c2       == emit(s.ctx, "LOAD_CONST", s.r)
        code     == newcode([c2 EXCEPT !.codes = f3.codes], bytecode)
        c3       == create_const(code.ctx, code.r)
        c4       == emit(c3.ctx, "LOAD_CONST", c3.r)
    IN  emit(c4, "DEFINE_FUNCTION", NoOperand)

CompileFunction(node, ctx) ==
    LET function_ctx == NewContext(ctx.codes)
        f1       == CreateLocals(node.ps, function_ctx)
        f2       == Compile(node.k[1], f1)
        f3       == emit(f2, "RETURN", NoOperand)
        bytecode == create_bytecode(f3)
        c1       == emit(ctx, "LOAD_SELF", NoOperand)
        s        == create_symbol_const(c1, node.n)
        c2       == emit(s.ctx, "LOAD_CONST", s.r)
        code     == newcode([c2 EXCEPT !.codes = f3.codes], bytecode)
        c3       == create_const(code.ctx, code.r)
        c4       == emit(c3.ctx, "LOAD_CONST", c3.r)
    IN  emit(c4, "DEFINE_FUNCTION", NoOperand)

CompileReturn(node, ctx) == emit(Compile(node.k[1], ctx), "RETURN", NoOperand)

CompileSend(node, ctx) ==
    LET args == Tail(node.k)
        c1   == Compile(node.k[1], ctx)
        c2   == CompileAll(Reversed(args), c1)
        s    == create_symbol_const(c2, node.n)
    IN  emit2(s.ctx, "SEND", s.r, Len(args))

CompileBinOp(node, ctx) == Compile(Send(node.k[1], node.n, <<node.k[2]>>), ctx)

CompileSelf(node, ctx) == emit(ctx, "LOAD_SELF", NoOperand)

NamedConsts == {"true", "false", "nil"}

named_consts(name) ==
    CASE name = "true" -> w_true [] name = "false" -> w_false [] name = "nil" -> w_nil

\* the uppercase test made before the local-table test
CompileVariableConstantFirst(node, ctx) ==
    IF node.n \in NamedConsts THEN EmitConst(ctx, named_consts(node.n))
    ELSE IF node.n = "self" THEN emit(ctx, "LOAD_SELF", NoOperand)
    ELSE IF IsUpper(node.n)
         THEN LET s == create_symbol_const(ctx, node.n) IN emit(s.ctx, "LOAD_CONSTANT", s.r)
    ELSE IF local_defined(ctx, node.n)
         THEN LET loc == create_local(ctx, node.n) IN emit(loc.ctx, "LOAD_LOCAL", loc.r)
    ELSE Compile(Send(Self, node.n, <<>>), ctx)

CompileVariable(node, ctx) ==
    IF node.n \in NamedConsts THEN EmitConst(ctx, named_consts(node.n))
    ELSE IF node.n = "self" THEN emit(ctx, "LOAD_SELF", NoOperand)
    ELSE IF local_defined(ctx, node.n)
         THEN LET loc == create_local(ctx, node.n) IN emit(loc.ctx, "LOAD_LOCAL", loc.r)
    ELSE IF IsUpper(node.n)
         THEN LET s == create_symbol_const(ctx, node.n) IN emit(s.ctx, "LOAD_CONSTANT", s.r)
    ELSE Compile(Send(Self, node.n, <<>>), ctx)

CompileInstanceVariable(node, ctx) ==
    LET c1 == emit(ctx, "LOAD_SELF", NoOperand)
        s  == create_symbol_const(c1, node.n)
    IN  emit(s.ctx, "LOAD_INSTANCE_VAR", s.r)

CompileArray(node, ctx) ==
    emit(CompileAll(node.k, ctx), "BUILD_ARRAY", Operand("count", Len(node.k)))

CompileConstantInt(node, ctx) ==
    LET c == create_int_const(ctx, node.i) IN emit(c.ctx, "LOAD_CONST", c.r)

CompileConstantString(node, ctx) ==
    LET c == create_string_const(ctx, node.n)
    IN  emit(emit(c.ctx, "LOAD_CONST", c.r), "COPY_STRING", NoOperand)

\* node.compile(ctx) by the node's class
Dispatch(node, ctx) ==
    CASE node.t = "Main" -> CompileMain(node, ctx)
      [] node.t = "Block" -> CompileBlock(node, ctx)
      [] node.t = "Statement" -> CompileStatement(node, ctx)
      [] node.t = "Assignment" -> CompileAssignment(node, ctx)
      [] node.t = "InstanceVariableAssignment" -> CompileInstanceVariableAssignment(node, ctx)
      [] node.t = "If" -> CompileIf(node, ctx)
      [] node.t = "While" -> CompileWhile(node, ctx)
      [] node.t = "Class" -> CompileClass(node, ctx)
      [] node.t = "Function" -> CompileFunction(node, ctx)
      [] node.t = "Return" -> CompileReturn(node, ctx)
      [] node.t = "BinOp" -> CompileBinOp(node, ctx)
      [] node.t = "Send" -> CompileSend(node, ctx)
      [] node.t = "Self" -> CompileSelf(node, ctx)
      [] node.t = "Variable" -> CompileVariable(node, ctx)
      [] node.t = "InstanceVariable" -> CompileInstanceVariable(node, ctx)
      [] node.t = "Array" -> CompileArray(node, ctx)
      [] node.t = "ConstantInt" -> CompileConstantInt(node, ctx)
      [] node.t = "ConstantString" -> CompileConstantString(node, ctx)

\* The call node.compile(ctx).  The context also notes, per call, the positions
\* of the unit the call filled (start up to end), the local table before and
\* after it (lb, la) and the sizes of the two pools before and after it.
Compile(node, ctx) ==
    LET c == Dispatch(node, ctx)
    IN  [c EXCEPT !.spans = Append(@,
            [node |-> node, start |-> Len(ctx.instrs), end |-> Len(c.instrs),
             lb |-> ctx.locals, la |-> c.locals,
             cb |-> Len(ctx.consts), ca |-> Len(c.consts),
             sb |-> Len(ctx.syms), sa |-> Len(c.syms)])]

(***************************************************************************)
(* The trees the model compiles.                                           *)
(***************************************************************************)
RECURSIVE SeqsUpTo(_, _)

\* the sequences over S of length 0..n
SeqsUpTo(S, n) ==
    IF n = 0 THEN {<<>>}
    ELSE LET shorter == SeqsUpTo(S, n - 1)
         IN  shorter \cup {Append(q, x) : q \in {r \in shorter : Len(r) = n - 1}, x \in S}

VarNames == {"true", "false", "nil", "self", "a", "b", "c", "X", "p", "q"}

ParamNames == {"a", "b", "X", "true"}

ParamLists == SeqsUpTo(ParamNames, MaxParams)

Leaves ==
    {Variable(n) : n \in VarNames}
        \cup {Self, ConstantInt(1), ConstantString("s"), InstanceVariable("@i")}

\* p and q are barewords: calls of a method on self, visible in the trace
ArgLists == SeqsUpTo({Variable("p"), Variable("q")}, MaxArgs)

Simple ==
    Leaves
        \cup {Send(Self, "f", args) : args \in ArgLists}
        \cup {Send(Variable("a"), "g", <<ConstantInt(1)>>)}
        \cup {Array(items) : items \in ArgLists}
        \cup {BinOp("+", ConstantInt(1), Variable("a"))}
        \cup {Assignment(t, v) : t \in {"a", "b", "X", "true"},
                                 v \in {ConstantInt(1), Variable("p")}}
        \cup {InstanceVariableAssignment("@i", ConstantInt(1))}

Conds == {Variable("true"), Variable("p")}

Pre == {<<>>, <<Statement(Assignment("a", ConstantInt(1)))>>}

Fin == {Statement(Variable("a")), Statement(Variable("q")), Return(Variable("a")),
        Statement(Assignment("b", ConstantInt(1)))}

BaseBodies == {Block(pre \o <<f>>) : pre \in Pre, f \in Fin} \cup {Block(<<>>)}

RECURSIVE Compound(_)

\* the bodies of the constructs of nesting depth d
Bodies(d) == BaseBodies \cup {Block(<<Statement(c)>>) : c \in Compound(d - 1)}

\* If, While, Function and Class nested to depth d
Compound(d) ==
    IF d = 0 THEN {}
    ELSE LET B == Bodies(d)
         IN  {If(c, b) : c \in Conds, b \in B}
                 \cup {While(c, b) : c \in Conds, b \in B}
                 \cup {Function("f", <<"a">>, b) : b \in B}
                 \cup {Class("C", b) : b \in B}

\* a statement followed by another: the first is not the block's last
Sequenced == {Block(<<Statement(c), Statement(Variable("a"))>>) : c \in Compound(1)}

\* X = v; X
StoreThenLoad ==
    {Block(<<Statement(Assignment(x, v)), Statement(Variable(x))>>) :
        x \in {"X"}, v \in {ConstantInt(1), Variable("p")}}

FunctionBodies ==
    BaseBodies
        \cup {Block(<<Statement(Assignment("c", Variable("a"))), Statement(Variable("c")),
                      Statement(Assignment("b", Variable("c"))), Statement(Variable("b"))>>)}

Functions == {Function("f", ps, b) : ps \in ParamLists, b \in FunctionBodies}

Statements ==
    UNION {{Statement(e), [Statement(e) EXCEPT !.dp = TRUE], Return(e)} :
              e \in Simple \cup Compound(1)}

\* roots compiled into a context with any pre-declared locals
SmallRoots == Simple \cup Statements \cup StoreThenLoad \cup BaseBodies \cup Compound(1)

\* complete units around the deepest bodies: a program, a method, a class
Programs ==
    UNION {{Main(b), Function("f", <<"a">>, b), Class("C", b)} : b \in Bodies(MaxDepth + 1)}

\* the statements of the blocks B, each with the dont_pop its block gave it
StatementsOf(B) == UNION {{b.k[j] : j \in 1..Len(b.k)} : b \in B}

\* roots compiled into a fresh context; with SmallRoots, every subtree of a root
\* is a root
BigRoots ==
    Compound(MaxDepth) \cup Functions \cup FunctionBodies \cup Bodies(MaxDepth + 1)
        \cup Sequenced
        \cup StatementsOf(Bodies(MaxDepth + 1) \cup FunctionBodies)
        \cup {s.k[1] : s \in StatementsOf(FunctionBodies)}
        \cup {Main(b) : b \in Sequenced}
        \cup Programs

(***************************************************************************)
(* The state: the tree handed to the compiler and the context it is        *)
(* compiled into, then the assembled unit and the interpreter's frame.     *)
(***************************************************************************)
VARIABLES root, params, phase, ctx, unit, pc, stack, locals, globals, ivars, trace, ret

input == <<root, params>>

compiled == <<ctx, unit>>

memory == <<locals, globals, ivars>>

vars == <<root, params, phase, ctx, unit, pc, stack, locals, globals, ivars, trace, ret>>

NoUnit == create_bytecode(NewContext(<<>>))

\* a context as Function.compile makes it before the body is compiled: fresh,
\* with one create_local per parameter; with no parameters, the driver's context
EntryContext(ps) == CreateLocals(ps, NewContext(<<>>))

Init ==
    /\ \/ root \in SmallRoots /\ params \in ParamLists
       \/ root \in BigRoots /\ params = <<>>
    /\ phase = "parsed"
    /\ ctx = EntryContext(params)
    /\ unit = NoUnit
    /\ pc = 0
    /\ stack = <<>>
    /\ locals = <<>>
    /\ globals = [n \in UpperNames |-> w_unset]
    /\ ivars = w_nil
    /\ trace = <<>>
    /\ ret = w_unset

\* root.compile(ctx)
CompileRoot(t) ==
    /\ phase = "parsed"
    /\ root.t = t
    /\ ctx' = Compile(root, ctx)
    /\ phase' = "compiled"
    /\ UNCHANGED <<input, unit, pc, stack, memory, trace, ret>>

MainCompile == CompileRoot("Main")

BlockCompile == CompileRoot("Block")

StatementCompile == CompileRoot("Statement")

AssignmentCompile == CompileRoot("Assignment")

InstanceVariableAssignmentCompile == CompileRoot("InstanceVariableAssignment")

IfCompile == CompileRoot("If")

WhileCompile == CompileRoot("While")

ClassCompile == CompileRoot("Class")

FunctionCompile == CompileRoot("Function")

ReturnCompile == CompileRoot("Return")

BinOpCompile == CompileRoot("BinOp")

SendCompile == CompileRoot("Send")

SelfCompile == CompileRoot("Self")

VariableCompile == CompileRoot("Variable")

InstanceVariableCompile == CompileRoot("InstanceVariable")

ArrayCompile == CompileRoot("Array")

ConstantIntCompile == CompileRoot("ConstantInt")

ConstantStringCompile == CompileRoot("ConstantString")

\* the driver assembles the unit and enters it with every local nil
Assemble ==
    /\ phase = "compiled"
    /\ unit' = create_bytecode(ctx)
    /\ phase' = "running"
    /\ locals' = [j \in 1..Len(ctx.locals) |-> w_nil]
    /\ UNCHANGED <<input, ctx, pc, stack, globals, ivars, trace, ret>>

(***************************************************************************)
(* The interpreter: one frame; a dispatched method, a class body and a     *)
(* function definition are calls that come back with one value.            *)
(***************************************************************************)
Instr == unit.instrs[pc + 1]

At(op) == phase = "running" /\ pc < Len(unit.instrs) /\ Instr.op = op

Top == stack[Len(stack)]

Pop(n) == SubSeq(stack, 1, Len(stack) - n)

Falsy(w) == w.k \in {"nil", "false"}

SendResults == {w_true, w_nil}

\* the step of an instruction that needs n values on the stack; with fewer the
\* frame's stack underflows
Step(n, newpc, newstack) ==
    IF Len(stack) < n
    THEN phase' = "fault" /\ UNCHANGED <<pc, stack>>
    ELSE phase' = phase /\ pc' = newpc /\ stack' = newstack

\* a runtime error of the program: the frame is abandoned
Raise == phase' = "raised" /\ UNCHANGED <<pc, stack>>

DISCARD_TOP ==
    /\ At("DISCARD_TOP")
    /\ Step(1, pc + 1, Pop(1))
    /\ UNCHANGED <<input, compiled, memory, trace, ret>>

LOAD_CONST ==
    /\ At("LOAD_CONST")
    /\ IF Instr.a < Len(unit.consts)
       THEN Step(0, pc + 1, Append(stack, unit.consts[Instr.a + 1]))
       ELSE Raise
    /\ UNCHANGED <<input, compiled, memory, trace, ret>>

LOAD_SELF ==
    /\ At("LOAD_SELF")
    /\ Step(0, pc + 1, Append(stack, w_self))
    /\ UNCHANGED <<input, compiled, memory, trace, ret>>

COPY_STRING ==
    /\ At("COPY_STRING")
    /\ Step(1, pc + 1, stack)
    /\ UNCHANGED <<input, compiled, memory, trace, ret>>

STORE_LOCAL ==
    /\ At("STORE_LOCAL")
    /\ Step(1, pc + 1, stack)
    /\ locals' = IF stack = <<>> THEN locals ELSE [locals EXCEPT ![Instr.a + 1] = Top]
    /\ UNCHANGED <<input, compiled, globals, ivars, trace, ret>>

LOAD_LOCAL ==
    /\ At("LOAD_LOCAL")
    /\ Step(0, pc + 1, Append(stack, locals[Instr.a + 1]))
    /\ UNCHANGED <<input, compiled, memory, trace, ret>>

STORE_CONSTANT ==
    /\ At("STORE_CONSTANT")
    /\ Step(1, pc + 1, stack)
    /\ globals' = IF stack = <<>> THEN globals
                  ELSE [globals EXCEPT ![unit.syms[Instr.a + 1]] = Top]
    /\ UNCHANGED <<input, compiled, locals, ivars, trace, ret>>

\* reading a constant nothing was stored in raises
LOAD_CONSTANT ==
    /\ At("LOAD_CONSTANT")
    /\ IF globals[unit.syms[Instr.a + 1]] = w_unset
       THEN Raise
       ELSE Step(0, pc + 1, Append(stack, globals[unit.syms[Instr.a + 1]]))
    /\ UNCHANGED <<input, compiled, memory, trace, ret>>

\* pops the object, leaves the value
STORE_INSTANCE_VAR ==
    /\ At("STORE_INSTANCE_VAR")
    /\ Step(2, pc + 1, Pop(1))
    /\ ivars' = IF Len(stack) < 2 THEN ivars ELSE stack[Len(stack) - 1]
    /\ UNCHANGED <<input, compiled, locals, globals, trace, ret>>

LOAD_INSTANCE_VAR ==
    /\ At("LOAD_INSTANCE_VAR")
    /\ Step(1, pc + 1, Append(Pop(1), ivars))
    /\ UNCHANGED <<input, compiled, memory, trace, ret>>

JUMP_IF_FALSE ==
    /\ At("JUMP_IF_FALSE")
    /\ Step(1, IF stack # <<>> /\ Falsy(Top) THEN Instr.a ELSE pc + 1, Pop(1))
    /\ UNCHANGED <<input, compiled, memory, trace, ret>>

JUMP ==
    /\ At("JUMP")
    /\ Step(0, Instr.a, stack)
    /\ UNCHANGED <<input, compiled, memory, trace, ret>>

\* pops the arguments and the receiver, pushes what the method returns
SEND ==
    /\ At("SEND")
    /\ \E w \in SendResults : Step(Instr.b + 1, pc + 1, Append(Pop(Instr.b + 1), w))
    /\ trace' = IF Len(trace) < MaxTrace /\ Len(stack) >= Instr.b + 1
                THEN Append(trace, unit.syms[Instr.a + 1]) ELSE trace
    /\ UNCHANGED <<input, compiled, memory, ret>>

BUILD_ARRAY ==
    /\ At("BUILD_ARRAY")
    /\ Step(Instr.a, pc + 1, Append(Pop(Instr.a), w_array))
    /\ UNCHANGED <<input, compiled, memory, trace, ret>>

\* consumes receiver, name, superclass and body code
BUILD_CLASS ==
    /\ At("BUILD_CLASS")
    /\ Step(4, pc + 1, Append(Pop(4), w_nil))
    /\ UNCHANGED <<input, compiled, memory, trace, ret>>

\* consumes receiver, name and body code
DEFINE_FUNCTION ==
    /\ At("DEFINE_FUNCTION")
    /\ Step(3, pc + 1, Append(Pop(3), w_nil))
    /\ UNCHANGED <<input, compiled, memory, trace, ret>>

\* hands the top of the stack to the caller; the frame is over
RETURN ==
    /\ At("RETURN")
    /\ IF stack = <<>>
       THEN phase' = "fault" /\ UNCHANGED <<pc, stack, ret>>
       ELSE phase' = "returned" /\ ret' = Top /\ stack' = Pop(1) /\ pc' = pc
    /\ UNCHANGED <<input, compiled, memory, trace>>

Next ==
    \/ MainCompile \/ BlockCompile \/ StatementCompile \/ AssignmentCompile
    \/ InstanceVariableAssignmentCompile \/ IfCompile \/ WhileCompile \/ ClassCompile
    \/ FunctionCompile \/ ReturnCompile \/ BinOpCompile \/ SendCompile \/ SelfCompile
    \/ VariableCompile \/ InstanceVariableCompile \/ ArrayCompile \/ ConstantIntCompile
    \/ ConstantStringCompile
    \/ Assemble
    \/ DISCARD_TOP \/ LOAD_CONST \/ LOAD_SELF \/ COPY_STRING \/ STORE_LOCAL \/ LOAD_LOCAL
    \/ STORE_CONSTANT \/ LOAD_CONSTANT \/ STORE_INSTANCE_VAR \/ LOAD_INSTANCE_VAR
    \/ JUMP_IF_FALSE \/ JUMP \/ SEND \/ BUILD_ARRAY \/ BUILD_CLASS \/ DEFINE_FUNCTION
    \/ RETURN

Spec == Init /\ [][Next]_vars

(***************************************************************************)
(* Properties.                                                             *)
(***************************************************************************)
\* root.compile(ctx) has returned and nothing was run yet
Compiled == phase = "compiled"

\* the frame ran off the end of the root's instructions
AtEnd == phase = "running" /\ pc = Len(unit.instrs)

\* the unit the driver would assemble from the context, and the code objects
\* Function.compile and Class.compile assembled
AssembledUnits == {create_bytecode(ctx)} \cup {ctx.codes[j] : j \in 1..Len(ctx.codes)}

InstrAt(u, p) == u.instrs[p + 1]

Positions(u) == 0..(Len(u.instrs) - 1)

\* a Statement that discards its value nets 0; every other node nets +1
Net(node) == IF node.t = "Statement" /\ ~node.dp THEN 0 ELSE 1

\* C1: executing the instructions a node's compile emitted, from an empty
\* stack, never takes the stack below its entry depth and leaves it at +1 on
\* every path that reaches the end of those instructions; a Statement that is
\* not its block's last leaves it at 0, so a Block nets what its last statement
\* nets.  Every subtree of a root is itself a root.
C1_StackEffect ==
    /\ phase # "fault"
    /\ AtEnd => Len(stack) = Net(root)

\* a block whose first statement is an If or While and is not the last has
\* run to its end
C1_Witness ==
    /\ AtEnd
    /\ root.t = "Block" /\ Len(root.k) = 2
    /\ root.k[1].k[1].t \in {"If", "While"}
    /\ trace # <<>>
    /\ Len(stack) = 1

\* C2: whatever the block, a Main program that returns to its host returns
\* the true singleton.
C2_MainReturnsTrue == (root.t = "Main" /\ phase = "returned") => ret = w_true

\* the names of the arguments of a Send whose arguments are all barewords
ArgNames(node) == [j \in 1..(Len(node.k) - 1) |-> node.k[j + 1].n]

\* C3: a Send with two or more arguments, each a method call with a visible
\* effect, performs the arguments' calls in declared order, then its own.
C3_ArgumentsLeftToRight ==
    (AtEnd /\ root.t = "Send" /\ root.n = "f" /\ Len(root.k) >= 3)
        => trace = ArgNames(root) \o <<"f">>

IsJump(ins) == ins.op \in {"JUMP", "JUMP_IF_FALSE"}

\* the jumps of unit u that were emitted with a placeholder operand
ForwardJumps(u) == {p \in Positions(u) : IsJump(InstrAt(u, p)) /\ InstrAt(u, p).ph}

\* C4: in every assembled unit, each jump emitted with a placeholder operand
\* has been patched exactly once, to a position after itself that the
\* instruction sequence had reached when it was assembled; no jump still
\* carries a placeholder.
C4_ForwardJumpsPatchedOnce ==
    Compiled =>
        \A u \in AssembledUnits :
            \A p \in Positions(u) :
                IsJump(InstrAt(u, p)) =>
                    /\ InstrAt(u, p).ak = "pos"
                    /\ InstrAt(u, p).ph =>
                          /\ InstrAt(u, p).np = 1
                          /\ InstrAt(u, p).a > p
                          /\ InstrAt(u, p).a <= Len(u.instrs)

\* a function or class body with an If inside a While (or the reverse) has
\* been assembled
C4_Witness ==
    /\ Compiled
    /\ \E j \in 1..Len(ctx.codes) : Cardinality(ForwardJumps(ctx.codes[j])) >= 3

\* the call that compiled node at position start of unit u
SpanOf(u, node, start) ==
    CHOOSE sp \in {u.spans[j] : j \in 1..Len(u.spans)} : sp.node = node /\ sp.start = start

HasSpan(u, node, start) ==
    \E j \in 1..Len(u.spans) : u.spans[j].node = node /\ u.spans[j].start = start

IsNilLoad(u, p) ==
    /\ InstrAt(u, p).op = "LOAD_CONST"
    /\ InstrAt(u, p).a < Len(u.consts)
    /\ u.consts[InstrAt(u, p).a + 1] = w_nil

\* the jumps of the If compiled by sp land on its own nil load and just after it
IfJumpsLand(u, sp) ==
    /\ HasSpan(u, sp.node.k[1], sp.start)
    /\ LET cond == SpanOf(u, sp.node.k[1], sp.start)
       IN  /\ HasSpan(u, sp.node.k[2], cond.end + 1)
           /\ LET body == SpanOf(u, sp.node.k[2], cond.end + 1)
              IN  /\ InstrAt(u, cond.end).op = "JUMP_IF_FALSE"
                  /\ InstrAt(u, cond.end).a = body.end + 1
                  /\ InstrAt(u, body.end).op = "JUMP"
                  /\ InstrAt(u, body.end).a = body.end + 2
                  /\ IsNilLoad(u, body.end + 1)
                  /\ sp.end = body.end + 2

\* the jumps of the While compiled by sp land on the first instruction of its
\* condition and on the nil load after its back jump
WhileJumpsLand(u, sp) ==
    /\ HasSpan(u, sp.node.k[1], sp.start)
    /\ LET cond == SpanOf(u, sp.node.k[1], sp.start)
       IN  /\ cond.end > cond.start
           /\ HasSpan(u, sp.node.k[2], cond.end + 1)
           /\ LET body == SpanOf(u, sp.node.k[2], cond.end + 1)
              IN  /\ InstrAt(u, cond.end).op = "JUMP_IF_FALSE"
                  /\ InstrAt(u, cond.end).a = body.end + 2
                  /\ InstrAt(u, body.end).op = "DISCARD_TOP"
                  /\ InstrAt(u, body.end + 1).op = "JUMP"
                  /\ InstrAt(u, body.end + 1).a = cond.start
                  /\ IsNilLoad(u, body.end + 2)
                  /\ sp.end = body.end + 3

\* the units that are complete: function and class bodies, and a Main program
CompleteUnits ==
    {ctx.codes[j] : j \in 1..Len(ctx.codes)}
        \cup (IF root.t = "Main" THEN {create_bytecode(ctx)} ELSE {})

\* C9: in every assembled unit each If's and each While's jumps land on that
\* construct's own labels, and in a complete unit every jump operand is the
\* position of an instruction of the unit.
C9_JumpsLandOnOwnLabels ==
    Compiled =>
        /\ \A u \in AssembledUnits :
              \A j \in 1..Len(u.spans) :
                  /\ u.spans[j].node.t = "If" => IfJumpsLand(u, u.spans[j])
                  /\ u.spans[j].node.t = "While" => WhileJumpsLand(u, u.spans[j])
        /\ \A u \in CompleteUnits :
              \A p \in Positions(u) :
                  IsJump(InstrAt(u, p)) => InstrAt(u, p).a \in Positions(u)

\* a Main program with a While whose body holds an If has been compiled
C9_Witness ==
    /\ Compiled
    /\ root.t = "Main"
    /\ \E i, j \in 1..Len(ctx.spans) :
          /\ ctx.spans[i].node.t = "If"
          /\ ctx.spans[j].node.t = "While"
          /\ ctx.spans[i].start > ctx.spans[j].start
          /\ ctx.spans[i].end <= ctx.spans[j].end

SymbolOps ==
    {"STORE_CONSTANT", "LOAD_CONSTANT", "STORE_INSTANCE_VAR", "LOAD_INSTANCE_VAR", "SEND"}

\* C10: the operand of every load-constant is an index one of the constant
\* pool's creation operations returned, and an index create_symbol_const
\* returned is the operand only of a constant-binding, instance-slot or
\* dispatch instruction.
C10_OperandsIndexTheirPool ==
    Compiled =>
        \A u \in AssembledUnits :
            \A p \in Positions(u) :
                /\ InstrAt(u, p).op = "LOAD_CONST" => InstrAt(u, p).ak = "const"
                /\ InstrAt(u, p).ak = "sym" => InstrAt(u, p).op \in SymbolOps

SpansOf(u) == {u.spans[j] : j \in 1..Len(u.spans)}

\* the instructions the call noted by sp emitted
CodeOf(u, sp) == SubSeq(u.instrs, sp.start + 1, sp.end)

Ops(code) == [j \in 1..Len(code) |-> code[j].op]

\* what the five-step order makes of the Variable compiled by sp
VariableResolved(u, sp) ==
    LET n    == sp.node.n
        code == CodeOf(u, sp)
    IN  IF n \in {"true", "false", "nil"}
        THEN /\ Ops(code) = <<"LOAD_CONST">>
             /\ code[1].ak = "const"
             /\ u.consts[code[1].a + 1] = Val(n, 0, "")
        ELSE IF n = "self"
        THEN Ops(code) = <<"LOAD_SELF">>
        ELSE IF InSeq(sp.lb, n)
        THEN /\ Ops(code) = <<"LOAD_LOCAL">>
             /\ sp.lb[code[1].a + 1] = n
        ELSE IF n \in UpperNames
        THEN /\ Ops(code) = <<"LOAD_CONSTANT">>
             /\ u.syms[code[1].a + 1] = n
        ELSE /\ Ops(code) = <<"LOAD_SELF", "SEND">>
             /\ u.syms[code[2].a + 1] = n
             /\ code[2].b = 0

\* C5: whatever the context holds, Variable.compile resolves the name by
\* the five steps, the first that matches: the singleton for true / false / nil
\* (also when a local has that name), the receiver for self, the existing slot
\* for a name of the local table, the constant binding for an uppercase name,
\* else a send to self without arguments; and the local table stays as it was.
C5_VariableResolutionOrder ==
    Compiled =>
        \A u \in AssembledUnits :
            \A sp \in SpansOf(u) :
                sp.node.t = "Variable" => VariableResolved(u, sp) /\ sp.la = sp.lb

\* true was compiled where a local is named true, and X where a local is named X
C5_Witness ==
    /\ Compiled
    /\ root.t = "Variable"
    /\ \/ root.n = "true" /\ ctx.locals = <<"X", "true">>
       \/ root.n = "X" /\ ctx.locals = <<"true", "X">>
    /\ Len(ctx.instrs) = 1

\* the root is the block  X = v; X  for an uppercase X
StoreThenLoadRoot ==
    /\ root.t = "Block" /\ Len(root.k) = 2
    /\ root.k[1].t = "Statement" /\ root.k[1].k[1].t = "Assignment"
    /\ root.k[1].k[1].n \in UpperNames
    /\ root.k[2].k[1] = Variable(root.k[1].k[1].n)

\* the assignment stores to the constant binding the variable reads, and the
\* read yields the stored value
RoundTrip ==
    LET x == root.k[1].k[1].n
        u == create_bytecode(ctx)
    IN  /\ phase # "raised"
        /\ Compiled =>
              LET asg == SpanOf(u, root.k[1].k[1], 0)
                  var == SpanOf(u, root.k[2].k[1], asg.end + 1)
              IN  /\ InstrAt(u, asg.end - 1).op = "STORE_CONSTANT"
                  /\ Ops(CodeOf(u, var)) = <<"LOAD_CONSTANT">>
                  /\ InstrAt(u, var.start).a = InstrAt(u, asg.end - 1).a
                  /\ InstrAt(u, var.start).ak = "sym"
                  /\ u.syms[InstrAt(u, var.start).a + 1] = x
        /\ AtEnd =>
              /\ stack = <<globals[x]>>
              /\ globals[x] # w_unset
              /\ root.k[1].k[1].k[1] = ConstantInt(1) => stack = <<newint(1)>>

\* C6 as claimed: in every unit, with any parameter list, X = v followed by X
\* stores to and reads from the same constant binding.
C6_ConstantRoundTripAnyUnit == StoreThenLoadRoot => RoundTrip

\* C6: in every unit in which X is not a local (X is not a parameter of the
\* function whose body the unit is), X = v followed by X stores to and
\* reads from the same constant binding, and the read yields the stored value.
C6_ConstantRoundTrip ==
    (StoreThenLoadRoot /\ ~InSeq(params, root.k[1].k[1].n)) => RoundTrip

\* X = 1; X ran to its end in a unit with parameters
C6_Witness ==
    /\ AtEnd
    /\ StoreThenLoadRoot
    /\ params = <<"a", "b">>
    /\ stack = <<newint(1)>>

Distinct(seq) == \A i, j \in 1..Len(seq) : seq[i] = seq[j] => i = j

\* the code object the Function or Class call noted by sp loads
NestedUnit(u, sp) == ctx.codes[u.consts[InstrAt(u, sp.end - 2).a + 1].v]

\* the parameters of the Function compiled by sp hold slots 0..N-1 in order
\* from before the body is compiled, body locals follow, and every load and
\* store of a name uses that name's one slot
ParameterSlots(u, sp) ==
    LET f    == NestedUnit(u, sp)
        ps   == sp.node.ps
        body == SpanOf(f, sp.node.k[1], 0)
    IN  /\ body.lb = ps
        /\ Len(f.locals) >= Len(ps) /\ SubSeq(f.locals, 1, Len(ps)) = ps
        /\ Distinct(f.locals)
        /\ \A v \in SpansOf(f) :
              /\ (v.node.t = "Variable" /\ InstrAt(f, v.start).op = "LOAD_LOCAL")
                    => f.locals[InstrAt(f, v.start).a + 1] = v.node.n
              /\ (v.node.t = "Variable" /\ InSeq(ps, v.node.n)
                     /\ v.node.n \notin {"true", "false", "nil", "self"})
                    => /\ InstrAt(f, v.start).op = "LOAD_LOCAL"
                       /\ ps[InstrAt(f, v.start).a + 1] = v.node.n
              /\ (v.node.t = "Assignment" /\ v.node.n \notin UpperNames)
                    => /\ InstrAt(f, v.end - 1).op = "STORE_LOCAL"
                       /\ f.locals[InstrAt(f, v.end - 1).a + 1] = v.node.n
                       /\ ~InSeq(ps, v.node.n) => InstrAt(f, v.end - 1).a >= Len(ps)

FrameEffect(u, sp) ==
    LET f    == NestedUnit(u, sp)
        body == SpanOf(f, sp.node.k[1], 0)
    IN  /\ sp.la = sp.lb
        /\ InstrAt(u, sp.end - 2).ak = "const"
        /\ u.consts[InstrAt(u, sp.end - 2).a + 1].k = "code"
        /\ HasSpan(f, sp.node.k[1], 0)
        /\ ~HasSpan(u, sp.node.k[1], sp.start)
        /\ IF sp.node.t = "Function"
           THEN /\ Ops(CodeOf(u, sp)) =
                      <<"LOAD_SELF", "LOAD_CONST", "LOAD_CONST", "DEFINE_FUNCTION">>
                /\ sp.ca = sp.cb + 1
                /\ sp.sa <= sp.sb + 1
                /\ body.lb = EntryContext(sp.node.ps).locals
                /\ Ops(SubSeq(f.instrs, body.end + 1, Len(f.instrs))) = <<"RETURN">>
           ELSE /\ Ops(CodeOf(u, sp)) =
                      <<"LOAD_SELF", "LOAD_CONST", "LOAD_CONST", "LOAD_CONST", "BUILD_CLASS">>
                /\ sp.ca = sp.cb + 2
                /\ sp.sa <= sp.sb + 1
                /\ body.lb = <<>>
                /\ Ops(SubSeq(f.instrs, body.end + 1, Len(f.instrs))) =
                      <<"DISCARD_TOP", "LOAD_CONST", "RETURN">>
        /\ \A v \in SpansOf(f) :
              (/\ v.node.t = "Variable"
               /\ InSeq(sp.lb, v.node.n)
               /\ ~InSeq(v.lb, v.node.n)
               /\ v.node.n \notin UpperNames \cup {"true", "false", "nil", "self"})
                  => Ops(CodeOf(f, v)) = <<"LOAD_SELF", "SEND">>

=============================================================================
